---------------------------- MODULE Spec2Model ----------------------------
(***************************************************************************)
(* State-machine model of the video-transcriber backend.                   *)
(*                                                                         *)
(* The repository holds several builds of the server.  Two of them carry   *)
(* the asynchronous job core and both are modelled, selected by `build`:   *)
(*   "chunked"  - src/unnamed/part_003: POST /api/jobs takes the media     *)
(*                file itself; processJob probes the duration and takes    *)
(*                the single-file or the chunked path.                     *)
(*   "registry" - src/unnamed/part_002: POST /api/upload stores the file   *)
(*                in the upload registry (2 h TTL, periodic sweep), POST   *)
(*                /api/jobs starts a single-file job from an uploadId.     *)
(* Every await of the code is a suspension point: the code between two     *)
(* awaits runs as one action (Node's single-threaded event loop).          *)
(***************************************************************************)
EXTENDS Integers, Sequences, FiniteSets, TLC

VARIABLES
    build,      \* which server build is running
    apiKey,     \* process.env.OPENAI_API_KEY is set
    clock,      \* Date.now(), in ms since the process started
    nextSweep,  \* due time of the setInterval sweep callback
    uploads,    \* Map uploadId -> [path, originalName, createdAt]
    issued,     \* upload identifiers ever returned by POST /api/upload
    jobs,       \* Map jobId -> job record
    tasks,      \* per job: the suspended processJob call (its locals)
    fs,         \* paths that exist in storage
    nfiles,     \* multipart payloads received so far (multer temp names)
    calls,      \* per job: the external calls started so far (history)
    writes,     \* per job: [status, pct] after every write to its record
    delFailed,  \* per job: paths whose deletion failed during cleanup
    res,        \* the response sent by the last step (none if it was no request)
    limit,      \* the run's bounds: jobs, payloads, chunk files per split, faults
    rt,         \* withRetry harness: the running call
    rtLog,      \* withRetry harness: outcomes of the attempts so far
    poll        \* the browser's pollJob call: where it is, what it has observed

vars == <<build, apiKey, clock, nextSweep, uploads, issued, jobs, tasks, fs,
          nfiles, calls, writes, delFailed, res, limit, rt, rtLog, poll>>

---------------------------------------------------------------------------
(* Bounds of the model *)

MaxSplit == 2       \* most chunk files the splitter leaves (Spec)
MaxTries == 3       \* largest attempt budget the retry harness draws
MaxTicks == 2       \* ticks of the clock past one TTL
MaxOver == 1        \* chunk files beyond MAX_CHUNKS a long split leaves (SpecLong)

(* Program constants *)

MAX_CHUNKS == 24
DURATION_LIMIT == 600
RETRY_BASE_MS == 1200
PIPELINE_TRIES == 3
UPLOAD_TTL_MS == 2 * 60 * 60 * 1000
SWEEP_INTERVAL_MS == 10 * 60 * 1000
TickMs == 5 * 60 * 1000

Builds == {"chunked", "registry"}
JobIds == {1, 2}        \* the identifiers crypto.randomBytes can return
UploadIds == {1, 2}

---------------------------------------------------------------------------
(* Error descriptions: String(e?.message || e).  A description is modelled *)
(* by where it came from and by which transient signatures it contains,    *)
(* which is all msg.includes() reads.                                      *)

Signatures ==
    {"ECONNRESET", "ETIMEDOUT", "EAI_AGAIN", "socket hang up", "APIConnectionError"}

Err(kind, sigs) == [kind |-> kind, sigs |-> sigs]
NoError == Err("", {})

Includes(msg, sig) == sig \in msg.sigs

RetryableChunked(msg) ==
    \/ Includes(msg, "ECONNRESET")
    \/ Includes(msg, "ETIMEDOUT")
    \/ Includes(msg, "EAI_AGAIN")
    \/ Includes(msg, "socket hang up")
    \/ Includes(msg, "APIConnectionError")

RetryableRegistry(msg) ==
    \/ Includes(msg, "ECONNRESET")
    \/ Includes(msg, "ETIMEDOUT")
    \/ Includes(msg, "EAI_AGAIN")
    \/ Includes(msg, "socket hang up")

Retryable(b, msg) ==
    IF b = "chunked" THEN RetryableChunked(msg) ELSE RetryableRegistry(msg)

---------------------------------------------------------------------------
(* withRetry(fn, tries): the loop, one attempt per step.                   *)
(*   state "calling"  - fn() was invoked and has not settled               *)
(*   state "sleeping" - waiting the backoff delay before the next attempt  *)
(*   state "returned" / "threw" - the promise of withRetry settled         *)

Outcome(ok, val, err) == [ok |-> ok, val |-> val, err |-> err]

RetryStart(b, tries) ==
    IF 0 < tries
    THEN [b |-> b, tries |-> tries, i |-> 0, state |-> "calling", ncalls |-> 1,
          waits |-> <<>>, val |-> <<>>, err |-> NoError]
    ELSE [b |-> b, tries |-> tries, i |-> 0, state |-> "threw", ncalls |-> 0,
          waits |-> <<>>, val |-> <<>>, err |-> Err("undefined", {})]

\* variant: the loop runs while i <= tries
GiveUpPastBudget(r, e) == ~Retryable(r.b, e) \/ r.i = r.tries

\* variant: the budget alone ends the loop
GiveUpBudgetOnly(r, e) == r.i = r.tries - 1

GiveUp(r, e) == ~Retryable(r.b, e) \/ r.i = r.tries - 1

\* variant: the delay is scaled by the loop index
BackoffMsZeroBased(i) == RETRY_BASE_MS * i

BackoffMs(i) == RETRY_BASE_MS * (i + 1)

\* variant: a failure that ends the loop is returned as an empty result
RetrySettleSwallowing(r, o) ==
    IF o.ok
    THEN [r EXCEPT !.state = "returned", !.val = o.val]
    ELSE IF GiveUp(r, o.err)
         THEN [r EXCEPT !.state = "returned", !.val = <<>>]
         ELSE [r EXCEPT !.state = "sleeping",
                        !.waits = Append(@, BackoffMs(r.i))]

RetrySettle(r, o) ==
    IF o.ok
    THEN [r EXCEPT !.state = "returned", !.val = o.val]
    ELSE IF GiveUp(r, o.err)
         THEN [r EXCEPT !.state = "threw", !.err = o.err]
         ELSE [r EXCEPT !.state = "sleeping",
                        !.waits = Append(@, BackoffMs(r.i))]

RetryWake(r) ==
    [r EXCEPT !.i = @ + 1, !.state = "calling", !.ncalls = @ + 1]

RetryIdle == [b |-> "chunked", tries |-> 0, i |-> 0, state |-> "idle", ncalls |-> 0,
              waits |-> <<>>, val |-> <<>>, err |-> NoError]

---------------------------------------------------------------------------
(* Paths.  A path is identified by the parts the code builds it from.      *)

Path(kind, id, job, chunk) == [kind |-> kind, id |-> id, job |-> job, chunk |-> chunk]
NoPath == Path("", 0, 0, <<>>)

\* multer's temp file for the n-th multipart payload (dest: "/tmp/uploads"
\* in the chunked build, "/tmp/incoming" in the registry build)
MulterPath(n) == Path("multer", n, 0, <<>>)
\* path.join(UPLOAD_DIR, `${uploadId}_${originalname}`)
StoredPath(uploadId) == Path("stored", uploadId, 0, <<>>)
\* variant: one fixed name for the converted audio
Mp3PathShared(b, uploadedPath, jobId) == Path("mp3", 0, 0, <<>>)

\* chunked: `${uploadedPath}_${jobId}.mp3`; registry: `/tmp/${jobId}.mp3`
Mp3Path(b, uploadedPath, jobId) ==
    IF b = "chunked" THEN Path("mp3", uploadedPath.id, jobId, <<>>)
    ELSE Path("mp3", 0, jobId, <<>>)
\* path.join("/tmp", `chunks_${jobId}`)
ChunksDir(jobId) == Path("chunkdir", 0, jobId, <<>>)
\* path.join(outDir, f)
ChunkPath(dir, name) == Path("chunk", 0, dir.job, name)

(* "chunk_%03d.mp3": the decimal digits of k, zero-padded to three.        *)
RECURSIVE Digits(_)
Digits(k) == IF k < 10 THEN <<k>> ELSE Append(Digits(k \div 10), k % 10)

RECURSIVE ZeroPad(_, _)
ZeroPad(ds, width) == IF Len(ds) >= width THEN ds ELSE ZeroPad(<<0>> \o ds, width)

ChunkName(k) == ZeroPad(Digits(k), 3)

(* Array.prototype.sort() with no comparator: by UTF-16 code units.  All   *)
(* names share "chunk_" and ".mp3", so the order is that of the digit      *)
(* strings followed by ".", which sorts below every digit.                 *)
CodeUnits(name) == Append(name, -1)

RECURSIVE SeqLess(_, _)
SeqLess(a, b) ==
    IF a = <<>> THEN b # <<>>
    ELSE IF b = <<>> THEN FALSE
    ELSE IF Head(a) # Head(b) THEN Head(a) < Head(b)
    ELSE SeqLess(Tail(a), Tail(b))

LexLess(a, b) == SeqLess(CodeUnits(a), CodeUnits(b))

RECURSIVE SortLex(_)
SortLex(S) ==
    IF S = {} THEN <<>>
    ELSE LET m == CHOOSE x \in S : \A y \in S \ {x} : LexLess(x, y)
         IN <<m>> \o SortLex(S \ {m})

\* fs.readdirSync(dir): the entries of the directory
ReadDir(files, dir) == {p \in files : p.kind = "chunk" /\ p.job = dir.job}

\* variant: one element too many
SliceInclusive(s, n) == SubSeq(s, 1, IF Len(s) < n + 1 THEN Len(s) ELSE n + 1)

\* files.slice(0, n)
Slice(s, n) == SubSeq(s, 1, IF Len(s) < n THEN Len(s) ELSE n)

---------------------------------------------------------------------------
(* Text.  A text is a sequence of tokens: the transcript the service       *)
(* returns for a file, the "\n\n" separator, the truncation notice.        *)

Token(tok, of) == [tok |-> tok, of |-> of]
Transcript(file) == <<Token("text", file)>>
Separator == <<Token("\n\n", NoPath)>>
TruncationNote == Separator \o <<Token("[Note: truncated]", NoPath)>>
EmptyText == <<>>

\* variant: the parts run together
StitchNoSeparator(full, i, part) == full \o part

\* full += (i === 0 ? "" : "\n\n") + part      (i is 0-based)
Stitch(full, i, part) == full \o (IF i = 0 THEN EmptyText ELSE Separator) \o part

\* if (chunkFiles.length > MAX_CHUNKS) full += note
WithNote(full, nChunkFiles) ==
    IF nChunkFiles > MAX_CHUNKS THEN full \o TruncationNote ELSE full

\* variant: the quotient is cut off
RoundDivDown(x, y) == x \div y

\* Math.round(x / y) for x >= 0, y > 0: halves round up
RoundDiv(x, y) == (2 * x + y) \div (2 * y)

\* variant: the base of the chunk stage is left out
ChunkPctNoBase(i, n) == RoundDiv(40 * i, n)

\* 55 + Math.round(40 * (i / used.length))
ChunkPct(i, n) == 55 + RoundDiv(40 * i, n)

---------------------------------------------------------------------------
(* The job registry.  A store is the pair of the jobs map and the history  *)
(* of writes; every write goes through SetJob.                             *)

Progress(pct, message) == [pct |-> pct, message |-> message]

\* variant: the record is created already processing
NewJobProcessing(id) ==
    [id |-> id, status |-> "processing", progress |-> Progress(0, "Queued"),
     resultText |-> EmptyText, error |-> NoError]

\* variant: the record is created with the progress of the first stage
NewJobStarted(id) ==
    [id |-> id, status |-> "queued", progress |-> Progress(10, "Queued"),
     resultText |-> EmptyText, error |-> NoError]

NewJob(id) ==
    [id |-> id, status |-> "queued", progress |-> Progress(0, "Queued"),
     resultText |-> EmptyText, error |-> NoError]

Store(js, ws) == [jobs |-> js, writes |-> ws]

Seen(rec) == [status |-> rec.status, pct |-> rec.progress.pct]

\* jobs.set(jobId, rec)
PutJob(st, id, rec) ==
    Store((id :> rec) @@ st.jobs,
          (id :> Append(IF id \in DOMAIN st.writes THEN st.writes[id] ELSE <<>>,
                        Seen(rec))) @@ st.writes)

\* variant: the patch is merged into every record of the registry
SetJobShared(st, id, patch) ==
    IF id \notin DOMAIN st.jobs THEN st
    ELSE Store([k \in DOMAIN st.jobs |-> patch @@ st.jobs[k]],
               [k \in DOMAIN st.writes |->
                   Append(st.writes[k], Seen(patch @@ st.jobs[k]))])

\* const j = jobs.get(jobId); if (!j) return; jobs.set(jobId, {...j, ...patch})
SetJob(st, id, patch) ==
    IF id \notin DOMAIN st.jobs THEN st
    ELSE PutJob(st, id, patch @@ st.jobs[id])

\* variant: the writes are left for a later turn of the event loop
SetJobsDeferred(st, id, patches) == st

RECURSIVE SetJobs(_, _, _)
SetJobs(st, id, patches) ==
    IF patches = <<>> THEN st
    ELSE SetJobs(SetJob(st, id, Head(patches)), id, Tail(patches))

StatusPatch(s) == [status |-> s]
ProgressPatch(pct, message) == [progress |-> Progress(pct, message)]

---------------------------------------------------------------------------
(* The duration probe.                                                     *)

\* ffprobe's stdout: a number (whole seconds, and whether a fraction
\* follows), nothing, or text that is no number
Stdout(kind, whole, frac) == [kind |-> kind, whole |-> whole, frac |-> frac]

ProbeStdouts ==
    { Stdout("text", 0, FALSE), Stdout("empty", 0, FALSE),
      Stdout("number", DURATION_LIMIT, FALSE),
      Stdout("number", DURATION_LIMIT, TRUE),
      Stdout("number", DURATION_LIMIT + 1, FALSE) }

Dur(known, whole, frac) == [known |-> known, whole |-> whole, frac |-> frac]
NullDur == Dur(FALSE, 0, FALSE)

\* const sec = Number(String(stdout).trim());
\* return Number.isFinite(sec) ? sec : null;        (Number("") is 0)
ParseDuration(out) ==
    IF out.kind = "number" THEN Dur(TRUE, out.whole, out.frac)
    ELSE IF out.kind = "empty" THEN Dur(TRUE, 0, FALSE)
    ELSE NullDur

\* !dur : null and 0 are falsy
Falsy(dur) == ~dur.known \/ (dur.whole = 0 /\ ~dur.frac)

\* variant: dur < 600
WithinLimitStrict(dur) == dur.whole < DURATION_LIMIT

\* dur <= 600
WithinLimit(dur) ==
    dur.whole < DURATION_LIMIT \/ (dur.whole = DURATION_LIMIT /\ ~dur.frac)

\* if (!dur || dur <= 600)
IsShort(dur) == Falsy(dur) \/ WithinLimit(dur)

---------------------------------------------------------------------------
(* processJob: the locals of a suspended call, and the code run when an    *)
(* await resumes.                                                          *)

NewTask(b, uploadedPath, jobId) ==
    [pc |-> "extract", uploadedPath |-> uploadedPath,
     mp3Path |-> Mp3Path(b, uploadedPath, jobId), chunksDir |-> NoPath,
     dur |-> NullDur, chunkFiles |-> <<>>, used |-> <<>>, i |-> 0,
     full |-> EmptyText, retry |-> RetryIdle]

\* the call has settled and its locals are gone; what the split returned is
\* kept for the record
FinishedTask(t) ==
    [pc |-> "finished", uploadedPath |-> t.uploadedPath, mp3Path |-> t.mp3Path,
     chunksDir |-> t.chunksDir, dur |-> t.dur, chunkFiles |-> t.chunkFiles,
     used |-> <<>>, i |-> 0, full |-> EmptyText, retry |-> RetryIdle]

Call(op, file) == [op |-> op, file |-> file]

\* the errors the transcription service is made to fail with
ApiErrors == { Err("api", {}), Err("api", {"ETIMEDOUT"}) }

ApiOutcomes(file) ==
    {Outcome(TRUE, Transcript(file), NoError)}
        \cup {Outcome(FALSE, <<>>, e) : e \in ApiErrors}

\* variant: the chunk files and their directory are left out
\* variant: the registry build deletes its input as the chunked build does
CleanupTargetsConsuming(b, files, t) ==
    IF b = "chunked"
    THEN ({t.uploadedPath, t.mp3Path} \cap files)
           \cup (IF t.chunksDir \in files
                 THEN ReadDir(files, t.chunksDir) \cup {t.chunksDir} ELSE {})
    ELSE {t.uploadedPath, t.mp3Path} \cap files

CleanupTargetsNoChunks(b, files, t) ==
    IF b = "chunked" THEN {t.uploadedPath, t.mp3Path} \cap files
    ELSE {t.mp3Path} \cap files

(* finally { ... }: what cleanup tries to delete, given what exists.       *)
CleanupTargets(b, files, t) ==
    IF b = "chunked"
    THEN ({t.uploadedPath, t.mp3Path} \cap files)
           \cup (IF t.chunksDir \in files
                 THEN ReadDir(files, t.chunksDir) \cup {t.chunksDir} ELSE {})
    ELSE {t.mp3Path} \cap files

\* variant: the first deletion that fails ends the cleanup
DeletedAborting(files, targets, bad) == IF bad = {} THEN targets ELSE {}

\* fs.rmdirSync fails on a directory that still has entries
Deleted(files, targets, bad) ==
    {p \in targets \ bad :
        p.kind = "chunkdir" => ReadDir(files, p) \subseteq (targets \ bad)}

Cleanup(b, files, t, bad) == files \ Deleted(files, CleanupTargets(b, files, t), bad)

\* the deletions made to fail: none, or (in a run with faults) all of one kind
FailChoices(targets) ==
    {{}} \cup (IF limit.faults
               THEN {{p \in targets : p.kind = k} : k \in {q.kind : q \in targets}}
               ELSE {})

\* variant: the status is left as it was
ErrorPatchNoStatus(b, e) == [error |-> e]

\* catch (e) { ... }
ErrorPatch(b, e) ==
    IF b = "chunked"
    THEN [status |-> "error", error |-> e]
    ELSE [status |-> "error", error |-> e, progress |-> Progress(0, "Error")]

\* variant: the status is written without the final progress
DonePatchesNoProgress(text) == << [status |-> "done", resultText |-> text] >>

\* setProgress(100, "Done"); then status "done" with the result text
DonePatches(text) ==
    << ProgressPatch(100, "Done"), [status |-> "done", resultText |-> text] >>

\* the call settles: the record as written, then the finally block
Settle(j, st, files, t) ==
    \E bad \in FailChoices(CleanupTargets(build, files, t)) :
        /\ jobs' = st.jobs
        /\ writes' = st.writes
        /\ fs' = Cleanup(build, files, t, bad)
        /\ delFailed' = [delFailed EXCEPT ![j] = bad]
        /\ tasks' = [tasks EXCEPT ![j] = FinishedTask(t)]

\* variant: the failure is recorded and nothing is deleted
ThrowNoCleanup(j, e, files, t) ==
    LET st == SetJob(Store(jobs, writes), j, ErrorPatch(build, e)) IN
    /\ jobs' = st.jobs
    /\ writes' = st.writes
    /\ fs' = files
    /\ tasks' = [tasks EXCEPT ![j] = FinishedTask(t)]
    /\ UNCHANGED <<calls, delFailed>>

Throw(j, e, files, t) ==
    /\ Settle(j, SetJob(Store(jobs, writes), j, ErrorPatch(build, e)), files, t)
    /\ UNCHANGED calls

Finish(j, text, files, t) ==
    /\ Settle(j, SetJobs(Store(jobs, writes), j, DonePatches(text)), files, t)
    /\ UNCHANGED calls

\* the code goes on to the next await: record writes, new locals, the call
Suspend(j, patches, files, t, call) ==
    LET st == SetJobs(Store(jobs, writes), j, patches) IN
    /\ jobs' = st.jobs
    /\ writes' = st.writes
    /\ fs' = files
    /\ tasks' = [tasks EXCEPT ![j] = t]
    /\ calls' = [calls EXCEPT ![j] = @ \cup {call}]
    /\ UNCHANGED delFailed

\* transcribeMp3File(path) / openaiTranscribeMp3(path) up to its first attempt:
\* the registry build checks the credential here; both read the file
StartTranscribe(j, patches, files, t, file) ==
    LET st == SetJobs(Store(jobs, writes), j, patches) IN
    IF build = "registry" /\ ~apiKey
    THEN /\ Settle(j, SetJob(st, j, ErrorPatch(build, Err("Missing OPENAI_API_KEY", {}))),
                   files, t)
         /\ UNCHANGED calls
    ELSE IF file \notin files
    THEN /\ Settle(j, SetJob(st, j, ErrorPatch(build, Err("ENOENT", {}))), files, t)
         /\ UNCHANGED calls
    ELSE Suspend(j, patches, files,
                 [t EXCEPT !.pc = "transcribe",
                           !.retry = RetryStart(build, PIPELINE_TRIES)],
                 Call("transcribe", file))

---------------------------------------------------------------------------
(* Requests of the chunked build (src/unnamed/part_003).                   *)

\* crypto.randomBytes(n).toString("hex"): an identifier not in use
FreshJobIds ==
    IF Cardinality(DOMAIN jobs) < limit.jobs THEN JobIds \ DOMAIN jobs ELSE {}

\* a response, with the route and the identifier of the request it answers
Response(route, arg, code, body, id) ==
    [route |-> route, arg |-> arg, code |-> code, body |-> body, id |-> id]
NoResponse == Response("", 0, 0, "", 0)

\* POST /api/jobs with a multipart body; multer has stored the payload
PostJobsChunked ==
    /\ build = "chunked"
    /\ \E hasFile \in BOOLEAN :
         LET n == nfiles + 1
             files == IF hasFile THEN fs \cup {MulterPath(n)} ELSE fs
         IN
         /\ hasFile => nfiles < limit.files
         /\ nfiles' = IF hasFile THEN n ELSE nfiles
         /\ IF ~apiKey
            THEN /\ res' = Response("POST /api/jobs", 0, 500,
                                  "Missing OPENAI_API_KEY in host variables.", 0)
                 /\ fs' = files
                 /\ UNCHANGED <<jobs, tasks, calls, writes, delFailed>>
            ELSE IF ~hasFile
            THEN /\ res' = Response("POST /api/jobs", 0, 400,
                                  "No file uploaded. Field must be 'file'.", 0)
                 /\ fs' = files
                 /\ UNCHANGED <<jobs, tasks, calls, writes, delFailed>>
            ELSE \E jobId \in FreshJobIds :
                   LET st0 == PutJob(Store(jobs, writes), jobId, NewJob(jobId))
                       st == SetJobs(st0, jobId,
                                     << StatusPatch("processing"),
                                        ProgressPatch(10, "extract") >>)
                   IN
                   /\ jobs' = st.jobs
                   /\ writes' = st.writes
                   /\ tasks' = (jobId :> NewTask(build, MulterPath(n), jobId)) @@ tasks
                   /\ calls' = (jobId :> {Call("convert", MulterPath(n))}) @@ calls
                   /\ delFailed' = (jobId :> {}) @@ delFailed
                   /\ fs' = files
                   /\ res' = Response("POST /api/jobs", 0, 200, "jobId", jobId)
    /\ UNCHANGED <<build, apiKey, clock, nextSweep, uploads, issued, limit, rt, rtLog, poll>>

\* variant: the record of a job that has ended is no longer found
GetJobEvicting ==
    /\ \E id \in JobIds :
         res' = IF id \in DOMAIN jobs /\ jobs[id].status \notin {"done", "error"}
                THEN Response("GET /api/jobs/:id", id, 200, "job", id)
                ELSE Response("GET /api/jobs/:id", id, 404, "Job not found", 0)
    /\ UNCHANGED <<build, apiKey, clock, nextSweep, uploads, issued, jobs, tasks, fs,
                   nfiles, calls, writes, delFailed, limit, rt, rtLog, poll>>

\* GET /api/jobs/:id (the same handler in both builds)
GetJob ==
    /\ \E id \in JobIds :
         res' = IF id \in DOMAIN jobs
                THEN Response("GET /api/jobs/:id", id, 200, "job", id)
                ELSE Response("GET /api/jobs/:id", id, 404, "Job not found", 0)
    /\ UNCHANGED <<build, apiKey, clock, nextSweep, uploads, issued, jobs, tasks, fs,
                   nfiles, calls, writes, delFailed, limit, rt, rtLog, poll>>

---------------------------------------------------------------------------
(* processJob of the chunked build, one action per await that resumes.     *)

Frame ==
    /\ res' = NoResponse
    /\ UNCHANGED <<build, apiKey, clock, nextSweep, uploads, issued, nfiles, limit,
                   rt, rtLog, poll>>

\* what ffmpeg reports when its input does not exist
NoInput == Err("convert: No such file or directory", {})

\* the converter, spawned by run("ffmpeg", ["-y", "-i", inputPath, ...]), opens
\* its input: some time after the spawn, and whatever has run in between.
\* A file that is open stays readable after it is unlinked.
ConverterOpens(j) ==
    /\ j \in DOMAIN tasks
    /\ tasks[j].pc = "extract"
    /\ LET t == tasks[j] IN
       IF t.uploadedPath \in fs
       THEN /\ tasks' = [tasks EXCEPT ![j] = [t EXCEPT !.pc = "converting"]]
            /\ UNCHANGED <<jobs, writes, fs, calls, delFailed>>
       ELSE Throw(j, NoInput, fs, t)
    /\ Frame

\* await extractAudioToMp3(uploadedPath, mp3Path) settles
ExtractReturnsChunked(j) ==
    /\ build = "chunked"
    /\ j \in DOMAIN tasks
    /\ tasks[j].pc = "converting"
    /\ LET t == tasks[j] IN
       \/ \E partial \in BOOLEAN :
            Throw(j, Err("convert", {}),
                  IF partial THEN fs \cup {t.mp3Path} ELSE fs, t)
       \/ Suspend(j, <<>>, fs \cup {t.mp3Path}, [t EXCEPT !.pc = "probe"],
                  Call("probe", t.mp3Path))
    /\ Frame

\* splitAudioIntoChunks(mp3Path, chunksDir, 300) up to its await
StartSplit(j, files, t) ==
    LET dir == ChunksDir(j) IN
    Suspend(j, <<ProgressPatch(35, "chunk")>>, files \cup {dir},
            [t EXCEPT !.pc = "split", !.chunksDir = dir], Call("split", t.mp3Path))

\* await getDurationSeconds(mp3Path) settles; the branch on the duration
ProbeReturnsChunked(j) ==
    /\ build = "chunked"
    /\ j \in DOMAIN tasks
    /\ tasks[j].pc = "probe"
    /\ LET t == tasks[j] IN
       \/ Throw(j, Err("probe", {}), fs, t)
       \/ \E out \in ProbeStdouts :
            LET dur == ParseDuration(out)
                t1 == [t EXCEPT !.dur = dur]
            IN IF IsShort(dur)
               THEN StartTranscribe(j, <<ProgressPatch(55, "upload")>>, fs, t1, t.mp3Path)
               ELSE StartSplit(j, fs, t1)
    /\ Frame

\* the chunk files ffmpeg's segment muxer writes: chunk_000, chunk_001, ...
SegmentFiles(dir, n) == {ChunkPath(dir, ChunkName(k)) : k \in 0 .. n - 1}

\* what a failing split leaves behind: nothing, or its first chunk
SplitLeftovers == {0, 1}

\* variant: the text stitched so far is written to the record at every chunk
ChunkLoopExposing(j, files, t) ==
    IF t.i < Len(t.used)
    THEN StartTranscribe(j, <<ProgressPatch(ChunkPct(t.i, Len(t.used)), "transcribe"),
                              [resultText |-> t.full]>>,
                         files, t, t.used[t.i + 1])
    ELSE Finish(j, WithNote(t.full, Len(t.chunkFiles)), files, t)

\* for (let i = ...; i < used.length; ...) { setProgress(pct, ...); await transcribe }
\* entered at index i; after the loop, the note and the final writes
ChunkLoop(j, files, t) ==
    IF t.i < Len(t.used)
    THEN StartTranscribe(j, <<ProgressPatch(ChunkPct(t.i, Len(t.used)), "transcribe")>>,
                         files, t, t.used[t.i + 1])
    ELSE Finish(j, WithNote(t.full, Len(t.chunkFiles)), files, t)

\* await run("ffmpeg", [... "-f", "segment" ...]) settles, inside
\* splitAudioIntoChunks; then readdir, filter, sort, slice and the loop
SplitReturnsChunked(j) ==
    /\ build = "chunked"
    /\ j \in DOMAIN tasks
    /\ tasks[j].pc = "split"
    /\ LET t == tasks[j] IN
       \/ \E k \in SplitLeftovers :
            Throw(j, Err("split", {}), fs \cup SegmentFiles(t.chunksDir, k), t)
       \/ \E n \in 0 .. limit.split :
            LET files == fs \cup SegmentFiles(t.chunksDir, n)
                names == SortLex({p.chunk : p \in ReadDir(files, t.chunksDir)})
                chunkFiles == [k \in 1 .. Len(names) |-> ChunkPath(t.chunksDir, names[k])]
            IN IF Len(names) = 0
               THEN Throw(j, Err("Chunking produced no output files.", {}), files, t)
               ELSE ChunkLoop(j, files,
                              [t EXCEPT !.chunkFiles = chunkFiles,
                                        !.used = Slice(chunkFiles, MAX_CHUNKS),
                                        !.i = 0, !.full = EmptyText])
    /\ Frame

\* an attempt of the transcription call settles, inside withRetry
TranscribeReturnsChunked(j) ==
    /\ build = "chunked"
    /\ j \in DOMAIN tasks
    /\ tasks[j].pc = "transcribe"
    /\ LET t == tasks[j]
           file == IF t.chunksDir = NoPath THEN t.mp3Path ELSE t.used[t.i + 1]
       IN
       \E o \in ApiOutcomes(file) :
         LET r == RetrySettle(t.retry, o) IN
         IF r.state = "sleeping"
         THEN /\ tasks' = [tasks EXCEPT ![j] = [t EXCEPT !.pc = "sleep", !.retry = r]]
              /\ UNCHANGED <<jobs, writes, fs, calls, delFailed>>
         ELSE IF r.state = "threw"
         THEN Throw(j, r.err, fs, [t EXCEPT !.retry = r])
         ELSE IF t.chunksDir = NoPath
         THEN Finish(j, r.val, fs, [t EXCEPT !.retry = r])
         ELSE ChunkLoop(j, fs, [t EXCEPT !.retry = r,
                                         !.full = Stitch(t.full, t.i, r.val),
                                         !.i = t.i + 1])
    /\ Frame

\* await new Promise((r) => setTimeout(r, 1200 * (i + 1))) settles: next attempt
RetryTimer(j) ==
    /\ j \in DOMAIN tasks
    /\ tasks[j].pc = "sleep"
    /\ LET t == tasks[j]
           file == IF t.chunksDir = NoPath THEN t.mp3Path ELSE t.used[t.i + 1]
       IN
       /\ tasks' = [tasks EXCEPT ![j] = [t EXCEPT !.pc = "transcribe",
                                                  !.retry = RetryWake(t.retry)]]
       /\ calls' = [calls EXCEPT ![j] = @ \cup {Call("transcribe", file)}]
       /\ UNCHANGED <<jobs, writes, fs, delFailed>>
    /\ Frame

---------------------------------------------------------------------------
(* pollJob(jobId) of the page script (src/unnamed/part_000).               *)

PollIdle ==
    [state |-> "idle", jobId |-> 0, seen |-> "", out |-> EmptyText, err |-> NoError]

ServerFrame ==
    UNCHANGED <<build, apiKey, clock, nextSweep, uploads, issued, jobs, tasks, fs,
                nfiles, calls, writes, delFailed, limit, rt, rtLog>>

\* pollJob(jobId) is called: resetProgress(), then the first setTimeout
PollStart ==
    /\ poll.state = "idle"
    /\ \E id \in JobIds : poll' = [PollIdle EXCEPT !.state = "waiting", !.jobId = id]
    /\ UNCHANGED res
    /\ ServerFrame

\* the 1200 ms timer fires: fetch(`/api/jobs/${jobId}`) is sent
PollTimer ==
    /\ poll.state = "waiting"
    /\ poll' = [poll EXCEPT !.state = "fetching"]
    /\ UNCHANGED res
    /\ ServerFrame

\* variant: a record with status error is taken for one still in progress
AfterResponseIgnoringError(p, ok, j) ==
    IF ~ok
    THEN [p EXCEPT !.state = "failed", !.seen = "non-OK", !.err = j.error]
    ELSE IF j.status = "done"
    THEN [p EXCEPT !.state = "returned", !.seen = "done", !.out = j.resultText]
    ELSE [p EXCEPT !.state = "waiting", !.seen = j.status]

\* if (!r.ok) throw ...; if (j.status === "done") { out.value = ...; return; }
\* if (j.status === "error") throw ...; otherwise the loop goes round
AfterResponse(p, ok, j) ==
    IF ~ok
    THEN [p EXCEPT !.state = "failed", !.seen = "non-OK", !.err = j.error]
    ELSE IF j.status = "done"
    THEN [p EXCEPT !.state = "returned", !.seen = "done", !.out = j.resultText]
    ELSE IF j.status = "error"
    THEN [p EXCEPT !.state = "failed", !.seen = "error", !.err = j.error]
    ELSE [p EXCEPT !.state = "waiting", !.seen = j.status]

\* the server handles the GET, and the response and its body reach pollJob
PollResponse ==
    /\ poll.state = "fetching"
    /\ LET id == poll.jobId
           found == id \in DOMAIN jobs
       IN /\ res' = IF found
                    THEN Response("GET /api/jobs/:id", id, 200, "job", id)
                    ELSE Response("GET /api/jobs/:id", id, 404, "Job not found", 0)
          /\ poll' = AfterResponse(poll, found,
                                   IF found THEN jobs[id]
                                   ELSE [error |-> Err("Job not found", {})])
    /\ ServerFrame

\* await fetch(...) rejects (the request did not get through): nothing in
\* pollJob catches it
PollRejected ==
    /\ poll.state = "fetching"
    /\ poll' = [poll EXCEPT !.state = "failed", !.seen = "rejected",
                            !.err = Err("Failed to fetch", {})]
    /\ UNCHANGED res
    /\ ServerFrame

---------------------------------------------------------------------------
(* The registry build (src/unnamed/part_002).                              *)

\* variant: the record is stamped with the start of the process
UploadEpoch(path, createdAt) == [path |-> path, createdAt |-> 0]

Upload(path, createdAt) == [path |-> path, createdAt |-> createdAt]

\* POST /api/upload
PostUpload ==
    /\ build = "registry"
    /\ \E hasFile \in BOOLEAN :
         IF ~hasFile
         THEN /\ res' = Response("POST /api/upload", 0, 400,
                               "No file uploaded (field name: file)", 0)
              /\ UNCHANGED <<fs, nfiles, uploads, issued>>
         ELSE /\ nfiles < limit.files
              /\ nfiles' = nfiles + 1
              /\ \/ \E uploadId \in UploadIds \ issued :
                      \* multer wrote the payload; fs.renameSync moves it
                      /\ fs' = fs \cup {StoredPath(uploadId)}
                      /\ uploads' = (uploadId :> Upload(StoredPath(uploadId), clock))
                                       @@ uploads
                      /\ issued' = issued \cup {uploadId}
                      /\ res' = Response("POST /api/upload", 0, 200, "uploadId", uploadId)
                 \/ \* fs.renameSync throws: catch (e) answers 500
                    /\ limit.faults
                    /\ fs' = fs \cup {MulterPath(nfiles + 1)}
                    /\ res' = Response("POST /api/upload", 0, 500, "Upload failed", 0)
                    /\ UNCHANGED <<uploads, issued>>
    /\ UNCHANGED <<build, apiKey, clock, nextSweep, jobs, tasks, calls, writes,
                   delFailed, limit, rt, rtLog, poll>>

\* the uploadId of a request body: absent, or some identifier
NoUploadId == 0
\* the identifiers a request may carry: one more than can ever be issued
RequestIds == {NoUploadId} \cup UploadIds \cup {Cardinality(UploadIds) + 1}

\* const u = uploads.get(uploadId); if (!u) ...
Resolve(ups, uploadId) == uploadId \in DOMAIN ups

\* variant: an unknown identifier is answered like a missing one
JobsRouteStatusMissing(ups, uploadId) ==
    IF uploadId = NoUploadId \/ ~Resolve(ups, uploadId) THEN 400 ELSE 200

\* the status POST /api/jobs answers with
JobsRouteStatus(ups, uploadId) ==
    IF uploadId = NoUploadId THEN 400
    ELSE IF ~Resolve(ups, uploadId) THEN 404
    ELSE 200

\* POST /api/jobs with {uploadId}, and processJob up to its first await
PostJobsRegistry ==
    /\ build = "registry"
    /\ \E uploadId \in RequestIds :
         LET code == JobsRouteStatus(uploads, uploadId) IN
         IF code = 400
         THEN /\ res' = Response("POST /api/jobs", uploadId, code, "Missing uploadId", 0)
              /\ UNCHANGED <<jobs, tasks, calls, writes, delFailed>>
         ELSE IF code = 404
         THEN /\ res' = Response("POST /api/jobs", uploadId, code,
                                 "Upload not found or expired", 0)
              /\ UNCHANGED <<jobs, tasks, calls, writes, delFailed>>
         ELSE \E jobId \in FreshJobIds :
                LET u == uploads[uploadId]
                    st0 == PutJob(Store(jobs, writes), jobId, NewJob(jobId))
                    st == SetJobs(st0, jobId,
                                  << StatusPatch("processing"),
                                     ProgressPatch(10, "Extracting audio") >>)
                IN
                /\ jobs' = st.jobs
                /\ writes' = st.writes
                /\ tasks' = (jobId :> NewTask(build, u.path, jobId)) @@ tasks
                /\ calls' = (jobId :> {Call("convert", u.path)}) @@ calls
                /\ delFailed' = (jobId :> {}) @@ delFailed
                /\ res' = Response("POST /api/jobs", uploadId, code, "jobId", jobId)
    /\ UNCHANGED <<build, apiKey, clock, nextSweep, uploads, issued, fs, nfiles,
                   limit, rt, rtLog, poll>>

\* await extractAudioToMp3(storedVideoPath, mp3Path) settles
ExtractReturnsRegistry(j) ==
    /\ build = "registry"
    /\ j \in DOMAIN tasks
    /\ tasks[j].pc = "converting"
    /\ LET t == tasks[j] IN
       \/ \E partial \in BOOLEAN :
            Throw(j, Err("convert", {}),
                  IF partial THEN fs \cup {t.mp3Path} ELSE fs, t)
       \/ StartTranscribe(j, <<ProgressPatch(55, "Uploading audio to OpenAI")>>,
                          fs \cup {t.mp3Path}, t, t.mp3Path)
    /\ Frame

\* an attempt of the fetch settles, inside withRetry
TranscribeReturnsRegistry(j) ==
    /\ build = "registry"
    /\ j \in DOMAIN tasks
    /\ tasks[j].pc = "transcribe"
    /\ LET t == tasks[j] IN
       \E o \in ApiOutcomes(t.mp3Path) :
         LET r == RetrySettle(t.retry, o) IN
         IF r.state = "sleeping"
         THEN /\ tasks' = [tasks EXCEPT ![j] = [t EXCEPT !.pc = "sleep", !.retry = r]]
              /\ UNCHANGED <<jobs, writes, fs, calls, delFailed>>
         ELSE IF r.state = "threw"
         THEN Throw(j, r.err, fs, [t EXCEPT !.retry = r])
         ELSE Finish(j, r.val, fs, [t EXCEPT !.retry = r])
    /\ Frame

\* variant: a record is purged once its age reaches the TTL
ExpiredInclusive(u, now) == now - u.createdAt >= UPLOAD_TTL_MS

\* now - u.createdAt > UPLOAD_TTL_MS
Expired(u, now) == now - u.createdAt > UPLOAD_TTL_MS

\* the setInterval callback: unlink (best effort) and delete every expired record
Sweep ==
    /\ build = "registry"
    /\ clock >= nextSweep
    /\ LET now == clock
           gone == {id \in DOMAIN uploads : Expired(uploads[id], now)}
           paths == {uploads[id].path : id \in gone} \cap fs
       IN
       /\ \E bad \in FailChoices(paths) : fs' = fs \ (paths \ bad)
       /\ uploads' = [id \in DOMAIN uploads \ gone |-> uploads[id]]
    /\ nextSweep' = clock + SWEEP_INTERVAL_MS
    /\ res' = NoResponse
    /\ UNCHANGED <<build, apiKey, clock, issued, jobs, tasks, nfiles, calls, writes,
                   delFailed, limit, rt, rtLog, poll>>

(* Time passes, by a tick or by a whole TTL; ticks are taken only in the   *)
(* first MaxTicks ticks after a multiple of the TTL, which is where a      *)
(* record's age crosses it.  The interval timer is taken to fire on time:  *)
(* the clock stops at a due sweep until it has run, and it passes over due *)
(* times only to land on one (the sweeps passed over find nothing that the *)
(* one at the landing time does not).                                      *)
TickSteps == {TickMs, UPLOAD_TTL_MS}

InWindow(t) == t % UPLOAD_TTL_MS <= MaxTicks * TickMs

Tick ==
    /\ build = "registry"
    /\ clock < nextSweep
    \* a converter opens its input long before a tick has passed
    /\ \A j \in DOMAIN tasks : tasks[j].pc # "extract"
    /\ \E d \in TickSteps :
         /\ clock + d <= UPLOAD_TTL_MS + MaxTicks * TickMs
         /\ InWindow(clock + d)
         /\ clock + d <= nextSweep \/ (clock + d - nextSweep) % SWEEP_INTERVAL_MS = 0
         /\ clock' = clock + d
    /\ res' = NoResponse
    /\ UNCHANGED <<build, apiKey, nextSweep, uploads, issued, jobs, tasks, fs, nfiles,
                   calls, writes, delFailed, limit, rt, rtLog, poll>>

---------------------------------------------------------------------------
(* The server.                                                             *)

Limit(nJobs, nFiles, nSplit, faults) ==
    [jobs |-> nJobs, files |-> nFiles, split |-> nSplit, faults |-> faults]

\* payloads a run receives: one per job in the chunked build, where a payload
\* comes with every job; one in the registry build, where jobs share uploads
Payloads(b) == IF b = "chunked" THEN Cardinality(JobIds) ELSE 1

Empty == [x \in {} |-> {}]

InitServer ==
    /\ build \in Builds
    /\ apiKey \in BOOLEAN
    /\ clock = 0
    /\ nextSweep = SWEEP_INTERVAL_MS
    /\ uploads = Empty
    /\ issued = {}
    /\ jobs = Empty
    /\ tasks = Empty
    /\ fs = {}
    /\ nfiles = 0
    /\ calls = Empty
    /\ writes = Empty
    /\ delFailed = Empty
    /\ res = NoResponse
    /\ poll = PollIdle
    /\ rtLog = <<>>

Init ==
    /\ InitServer
    /\ rt = RetryIdle
    /\ limit = Limit(Cardinality(JobIds), Payloads(build), MaxSplit, FALSE)

\* the continuations of job j's processJob call
Step(j) ==
    \/ ConverterOpens(j)
    \/ ExtractReturnsChunked(j)
    \/ ProbeReturnsChunked(j)
    \/ SplitReturnsChunked(j)
    \/ TranscribeReturnsChunked(j)
    \/ ExtractReturnsRegistry(j)
    \/ TranscribeReturnsRegistry(j)
    \/ RetryTimer(j)

Next ==
    \/ PostJobsChunked
    \/ PostUpload
    \/ PostJobsRegistry
    \/ GetJob
    \/ Sweep
    \/ Tick
    \/ \E j \in JobIds : Step(j)

Spec == Init /\ [][Next]_vars

(* Every external call returns or fails, and the event loop then runs the  *)
(* continuation: each job's next step is taken.                            *)
FairSpec == Spec /\ \A j \in JobIds : WF_vars(Step(j))

---------------------------------------------------------------------------
(* One job whose split leaves up to MAX_CHUNKS + 1 chunk files (chunked    *)
(* build, credential set): the long-audio runs.                            *)

InitLong ==
    /\ InitServer
    /\ build = "chunked"
    /\ apiKey
    /\ rt = RetryIdle
    /\ limit = Limit(1, 1, MAX_CHUNKS + MaxOver, FALSE)

NextLong ==
    \/ PostJobsChunked
    \/ GetJob
    \/ \E j \in JobIds :
         \/ ConverterOpens(j)
         \/ ExtractReturnsChunked(j)
         \/ ProbeReturnsChunked(j)
         \/ SplitReturnsChunked(j)
         \/ TranscribeReturnsChunked(j)
         \/ RetryTimer(j)

SpecLong == InitLong /\ [][NextLong]_vars

---------------------------------------------------------------------------
(* The browser's polling loop (src/unnamed/part_000), one call of          *)
(* pollJob(jobId) against the server: runs of one job.                     *)

InitPoll ==
    /\ InitServer
    /\ rt = RetryIdle
    /\ limit = Limit(1, 1, MaxSplit, FALSE)

NextPoll ==
    \/ Next
    \/ PollStart
    \/ PollTimer
    \/ PollResponse
    \/ PollRejected

SpecPoll == InitPoll /\ [][NextPoll]_vars

(* The pipeline's calls settle, the 1200 ms timer fires, and a fetch that  *)
(* was sent settles, by a response or by a rejection.                      *)
FairPoll ==
    /\ SpecPoll
    /\ \A j \in JobIds : WF_vars(Step(j))
    /\ WF_vars(PollTimer)
    /\ WF_vars(PollResponse \/ PollRejected)

---------------------------------------------------------------------------
(* Runs in which deletions may fail (unlinkSync, rmdirSync throwing), with  *)
(* one job and two payloads.                                                *)

InitFaults ==
    /\ InitServer
    /\ rt = RetryIdle
    /\ limit = Limit(1, 2, MaxSplit, TRUE)

SpecFaults == InitFaults /\ [][Next]_vars

---------------------------------------------------------------------------
(* withRetry on its own: every budget, every sequence of attempt outcomes. *)

HarnessErrors == {Err("op", {})} \cup {Err("op", {sig}) : sig \in Signatures}
HarnessOutcomes ==
    {Outcome(TRUE, v, NoError) : v \in {<<"v">>, <<"w">>}}
        \cup {Outcome(FALSE, <<>>, e) : e \in HarnessErrors}

InitRetry ==
    /\ InitServer
    /\ limit = Limit(0, 0, 0, FALSE)
    /\ \E b \in Builds, tries \in 0 .. MaxTries :
         /\ build = b
         /\ rt = RetryStart(b, tries)

HarnessFrame ==
    UNCHANGED <<build, apiKey, clock, nextSweep, uploads, issued, jobs, tasks, fs,
                nfiles, calls, writes, delFailed, res, limit, poll>>

\* the attempt in flight settles
HarnessSettle ==
    /\ rt.state = "calling"
    /\ \E o \in HarnessOutcomes :
         /\ rt' = RetrySettle(rt, o)
         /\ rtLog' = Append(rtLog, o)
    /\ HarnessFrame

\* the backoff timer fires
HarnessTimer ==
    /\ rt.state = "sleeping"
    /\ rt' = RetryWake(rt)
    /\ UNCHANGED rtLog
    /\ HarnessFrame

NextRetry == HarnessSettle \/ HarnessTimer

SpecRetry == InitRetry /\ [][NextRetry]_vars

---------------------------------------------------------------------------
(* Properties.                                                             *)

Terminal(j) == j \in DOMAIN jobs /\ jobs[j].status \in {"done", "error"}

\* the files of the transcription calls job j has made
Transcribed(j) == {c.file : c \in {d \in calls[j] : d.op = "transcribe"}}

\* texts joined by the separator, none before the first or after the last
RECURSIVE JoinBlank(_)
JoinBlank(texts) ==
    IF texts = <<>> THEN EmptyText
    ELSE IF Len(texts) = 1 THEN texts[1]
    ELSE texts[1] \o Separator \o JoinBlank(Tail(texts))

\* the transcripts of the first n of the files
TranscriptsOf(files, n) == [i \in 1 .. n |-> Transcript(files[i])]

\* the chunk files of a split that wrote n chunks, in the order of the audio
InTimeOrder(dir, n) == [i \in 1 .. n |-> ChunkPath(dir, ChunkName(i - 1))]

\* the names of the files increase in the order of their code units
InLexOrder(files) ==
    \A a, b \in 1 .. Len(files) : a < b => LexLess(files[a].chunk, files[b].chunk)

\* the job took the chunked path and its split returned chunk files
Chunked(j) == j \in DOMAIN tasks /\ tasks[j].chunksDir # NoPath

---------------------------------------------------------------------------
\* C1: every job that was created eventually has status done or error,
\* every external call of its pipeline returning or failing (FairSpec).
C1_EventuallyTerminal ==
    \A j \in JobIds : (j \in DOMAIN jobs) ~> Terminal(j)

\* one job ended done and another ended error
C1_Witness ==
    \E j, k \in DOMAIN jobs : jobs[j].status = "done" /\ jobs[k].status = "error"

---------------------------------------------------------------------------
\* C2 as stated: between two successive writes of a job's record the
\* progress percentage never decreases, on every path.
C2_NeverDecreases ==
    \A j \in DOMAIN writes :
        \A k \in 1 .. Len(writes[j]) - 1 : writes[j][k].pct <= writes[j][k + 1].pct

\* C2, amended: the percentage never decreases between two successive writes
\* unless the later one records the failure; the write that sets status
\* error keeps the percentage in the chunked build and sets it to 0 in the
\* registry build.
C2_NeverDecreasesUntilError ==
    \A j \in DOMAIN writes :
        \A k \in 1 .. Len(writes[j]) - 1 :
            LET a == writes[j][k]
                b == writes[j][k + 1]
            IN IF b.status = "error"
               THEN b.pct = (IF build = "chunked" THEN a.pct ELSE 0)
               ELSE a.pct <= b.pct

\* a job failed after its progress had passed the first stage
C2_Witness ==
    \E j \in DOMAIN writes :
        /\ jobs[j].status = "error"
        /\ \E k \in 1 .. Len(writes[j]) : writes[j][k].pct >= 55

---------------------------------------------------------------------------
\* C3: a job of the chunked path that is done with n chunks, 1 <= n <= 24,
\* has as result the transcripts of its chunks joined by the separator, in
\* the lexicographic order of the zero-padded names, which is the order of
\* the audio; no separator leads or trails.
C3_StitchedInOrder ==
    \A j \in DOMAIN jobs :
        (Chunked(j) /\ jobs[j].status = "done"
            /\ Len(tasks[j].chunkFiles) \in 1 .. MAX_CHUNKS)
        => LET files == tasks[j].chunkFiles
               n == Len(files)
           IN /\ InLexOrder(files)
              /\ files = InTimeOrder(tasks[j].chunksDir, n)
              /\ jobs[j].resultText = JoinBlank(TranscriptsOf(files, n))
              /\ Head(jobs[j].resultText) # Head(Separator)
              /\ jobs[j].resultText[Len(jobs[j].resultText)] # Head(Separator)

\* a job is done with MAX_CHUNKS chunks stitched
C3_Witness ==
    \E j \in DOMAIN jobs :
        /\ Chunked(j)
        /\ jobs[j].status = "done"
        /\ Len(tasks[j].chunkFiles) = MAX_CHUNKS

---------------------------------------------------------------------------
\* the duration is unknown or at most the limit
UnknownOrWithin(d) ==
    ~d.known \/ d.whole < DURATION_LIMIT \/ (d.whole = DURATION_LIMIT /\ ~d.frac)

SingleFile(j) == Call("transcribe", tasks[j].mp3Path) \in calls[j]
Split(j) == Call("split", tasks[j].mp3Path) \in calls[j]

\* the step in which job j's probe returns a duration
ProbeReturned(j) ==
    /\ j \in DOMAIN tasks
    /\ tasks[j].pc = "probe"
    /\ tasks'[j].pc # "probe"
    /\ jobs'[j].status # "error"

\* C4: in the chunked build the pipeline transcribes the whole artifact, and
\* never splits, exactly when the probed duration is unknown or <= 600, and
\* splits exactly when it is > 600; 600 is single-file and 601 is chunked.
C4_PathByDuration ==
    /\ [](\A j \in DOMAIN tasks :
            build = "chunked" =>
              /\ SingleFile(j) => UnknownOrWithin(tasks[j].dur) /\ ~Split(j)
              /\ Split(j) => ~UnknownOrWithin(tasks[j].dur) /\ ~SingleFile(j))
    /\ [][\A j \in JobIds :
            ProbeReturned(j) =>
              IF UnknownOrWithin(tasks'[j].dur)
              THEN SingleFile(j)' /\ Transcribed(j)' = {tasks[j].mp3Path}
              ELSE Split(j)' /\ Transcribed(j)' = {}]_vars

\* one job of 600 seconds went single-file and one of 601 seconds was split
C4_Witness ==
    \E j, k \in DOMAIN tasks :
        /\ tasks[j].dur = Dur(TRUE, DURATION_LIMIT, FALSE)
        /\ SingleFile(j) /\ ~Split(j)
        /\ tasks[k].dur = Dur(TRUE, DURATION_LIMIT + 1, FALSE)
        /\ Split(k) /\ ~SingleFile(k)

---------------------------------------------------------------------------
\* C5: when the split leaves more than 24 chunks, exactly the first 24 are
\* transcribed, no call is made for a later one, and the result is their
\* stitched text followed by the truncation notice; when it leaves 24 or
\* fewer, every chunk is transcribed and the result carries no notice.
C5_CapAndNotice ==
    \A j \in DOMAIN tasks :
        Chunked(j) =>
          LET files == tasks[j].chunkFiles
              n == Len(files)
              kept == IF n > MAX_CHUNKS THEN MAX_CHUNKS ELSE n
              first == {files[i] : i \in 1 .. kept}
          IN /\ Transcribed(j) \subseteq first
             /\ jobs[j].status = "done" =>
                  /\ Transcribed(j) = first
                  /\ n > MAX_CHUNKS =>
                       jobs[j].resultText =
                           JoinBlank(TranscriptsOf(files, MAX_CHUNKS)) \o TruncationNote
                  /\ n <= MAX_CHUNKS =>
                       /\ jobs[j].resultText = JoinBlank(TranscriptsOf(files, n))
                       /\ \A i \in 1 .. Len(jobs[j].resultText) :
                            jobs[j].resultText[i] # TruncationNote[Len(TruncationNote)]

\* a job is done whose split left more than MAX_CHUNKS chunks
C5_Witness ==
    \E j \in DOMAIN jobs :
        /\ Chunked(j)
        /\ jobs[j].status = "done"
        /\ Len(tasks[j].chunkFiles) > MAX_CHUNKS

---------------------------------------------------------------------------
\* C6 as stated: the lookup finds no record for an identifier never issued,
\* and none for a record created more than the TTL before the current time.
C6_ExpiredNotFound ==
    \A id \in RequestIds \ {NoUploadId} :
        /\ id \notin issued => ~Resolve(uploads, id)
        /\ (id \in DOMAIN uploads /\ clock - uploads[id].createdAt > UPLOAD_TTL_MS)
              => ~Resolve(uploads, id)

---------------------------------------------------------------------------
\* C7: with a budget of at least one, an operation whose first failure
\* matches none of the transient signatures is invoked once, and withRetry
\* fails with that error, having waited for nothing.
C7_NonTransientOnce ==
    (/\ rt.tries >= 1
     /\ Len(rtLog) >= 1
     /\ ~rtLog[1].ok
     /\ rtLog[1].err.sigs \cap Signatures = {})
    => /\ rt.state = "threw"
       /\ rt.ncalls = 1
       /\ Len(rtLog) = 1
       /\ rt.err = rtLog[1].err
       /\ rt.waits = <<>>

\* a budget of more than one, and a non-transient failure of the first attempt
C7_Witness ==
    /\ rt.tries > 1
    /\ rt.state = "threw"
    /\ Len(rtLog) = 1
    /\ rtLog[1].err.sigs = {}

---------------------------------------------------------------------------
\* C8 as stated: with a budget of at least one, an operation that always
\* fails with an error containing one of the five transient signatures is
\* invoked exactly as many times as the budget, and withRetry then fails
\* with the error of the last attempt.
C8_TransientExhaustsBudget ==
    (/\ rt.tries >= 1
     /\ \A k \in 1 .. Len(rtLog) :
          ~rtLog[k].ok /\ rtLog[k].err.sigs \cap Signatures # {})
    => /\ rt.state # "returned"
       /\ rt.state = "threw" =>
            /\ rt.ncalls = rt.tries
            /\ Len(rtLog) = rt.tries
            /\ rt.err = rtLog[Len(rtLog)].err

---------------------------------------------------------------------------
\* the files of job j: its upload, the converted audio, the chunk directory
\* and what is in it
JobFiles(j) ==
    {tasks[j].uploadedPath, tasks[j].mp3Path, ChunksDir(j)}
        \cup ReadDir(fs, ChunksDir(j))

\* C9 as stated: when a job is done or error, none of its files exists: not
\* the uploaded file, the converted audio, a chunk file or the chunk
\* directory (deletions succeeding).
C9_NoFilesLeft ==
    \A j \in DOMAIN jobs : Terminal(j) => JobFiles(j) \cap fs = {}

\* C9, amended: when a job is done or error (deletions succeeding), its
\* converted audio, its chunk files and its chunk directory do not exist; in
\* the chunked build its uploaded file does not exist either; in the
\* registry build no job deletes the stored upload, which exists for as
\* long as its record is in the upload registry.
C9_NoIntermediateFilesLeft ==
    /\ \A j \in DOMAIN jobs :
         Terminal(j) =>
           /\ (JobFiles(j) \ {tasks[j].uploadedPath}) \cap fs = {}
           /\ build = "chunked" => tasks[j].uploadedPath \notin fs
    /\ build = "registry" => \A id \in DOMAIN uploads : uploads[id].path \in fs

\* a job of the chunked path has ended and its chunks are gone
C9_Witness ==
    \E j \in DOMAIN jobs :
        /\ Terminal(j)
        /\ Chunked(j)
        /\ Len(tasks[j].chunkFiles) >= 1
        /\ JobFiles(j) \cap fs = {}

---------------------------------------------------------------------------
\* C10: POST /api/jobs with an uploadId for which the upload registry holds
\* no record answers 404, creates no job record, writes none and starts no
\* pipeline.
C10_UnknownUploadNotFound ==
    [][(/\ build = "registry"
        /\ res'.route = "POST /api/jobs"
        /\ res'.arg # NoUploadId
        /\ res'.arg \notin DOMAIN uploads)
       => /\ res'.code = 404
          /\ res'.body = "Upload not found or expired"
          /\ jobs' = jobs
          /\ writes' = writes
          /\ tasks' = tasks
          /\ calls' = calls
          /\ fs' = fs]_vars

\* the request named an identifier whose record the sweep had purged, with
\* a job in the registry
C10_Witness ==
    /\ res.route = "POST /api/jobs"
    /\ res.code = 404
    /\ res.arg \in issued
    /\ DOMAIN jobs # {}

---------------------------------------------------------------------------
\* the changes of status from one write of a record to the next
StatusSteps ==
    { <<"queued", "processing">>, <<"processing", "processing">>,
      <<"processing", "done">>, <<"processing", "error">> }

\* C11: a job's status goes queued, processing, then done or error: the
\* first write is queued, no write goes from queued to a terminal status or
\* back to queued or processing, and once the status is done or error no
\* step changes the status, the result text or the error detail.
C11_StatusOrder ==
    /\ [](\A j \in DOMAIN writes :
            /\ writes[j][1].status = "queued"
            /\ \A k \in 1 .. Len(writes[j]) - 1 :
                 <<writes[j][k].status, writes[j][k + 1].status>> \in StatusSteps)
    /\ [][\A j \in DOMAIN jobs :
            Terminal(j) =>
              /\ jobs'[j].status = jobs[j].status
              /\ jobs'[j].resultText = jobs[j].resultText
              /\ jobs'[j].error = jobs[j].error
              /\ writes'[j] = writes[j]]_vars

\* a job that is done is polled
C11_Witness ==
    /\ res.route = "GET /api/jobs/:id"
    /\ res.code = 200
    /\ jobs[res.arg].status = "done"
    /\ Len(writes[res.arg]) >= 5

---------------------------------------------------------------------------
\* C12: in every state a job's result text is non-empty only if its status
\* is done, and its error detail is non-empty only if its status is error;
\* a chunked job that is processing, or failed on a later chunk, has an
\* empty result text.
C12_TextOnlyWhenDone ==
    \A j \in DOMAIN jobs :
        /\ jobs[j].resultText # EmptyText => jobs[j].status = "done"
        /\ jobs[j].error # NoError => jobs[j].status = "error"

\* a chunked job failed after its first chunk had been transcribed
C12_Witness ==
    \E j \in DOMAIN jobs :
        /\ Chunked(j)
        /\ jobs[j].status = "error"
        /\ Cardinality(Transcribed(j)) >= 2
        /\ jobs[j].resultText = EmptyText

---------------------------------------------------------------------------
\* C13: no step removes a job record; GET /api/jobs/:id answers 200 with the
\* record of every identifier in the registry and 404 for every other, and
\* leaves the registry as it is.
C13_RecordsKept ==
    /\ [][DOMAIN jobs \subseteq DOMAIN jobs']_vars
    /\ [][res'.route = "GET /api/jobs/:id" =>
            /\ jobs' = jobs
            /\ writes' = writes
            /\ IF res'.arg \in DOMAIN jobs
               THEN res'.code = 200 /\ res'.body = "job" /\ res'.id = res'.arg
               ELSE res'.code = 404 /\ res'.body = "Job not found"]_vars

\* a job that ended in error is polled and found
C13_Witness ==
    /\ res.route = "GET /api/jobs/:id"
    /\ res.code = 200
    /\ jobs[res.arg].status = "error"

---------------------------------------------------------------------------
\* C14: POST /api/jobs that answers 200 has allocated a new record, first
\* written as queued with progress 0, with empty result text and error, and
\* answers while the job's first external call, the conversion, is still
\* in flight: the job is not terminal and nothing of its pipeline has
\* returned.
C14_ReturnsBeforePipeline ==
    [][(res'.route = "POST /api/jobs" /\ res'.code = 200)
       => LET j == res'.id IN
          /\ j \notin DOMAIN jobs
          /\ j \in DOMAIN jobs'
          /\ writes'[j][1] = [status |-> "queued", pct |-> 0]
          /\ jobs'[j].resultText = EmptyText
          /\ jobs'[j].error = NoError
          /\ jobs'[j].status \notin {"done", "error"}
          /\ tasks'[j].pc = "extract"
          /\ calls'[j] = {Call("convert", tasks'[j].uploadedPath)}]_vars

\* the response of a job creation, with the job processing
C14_Witness ==
    /\ res.route = "POST /api/jobs"
    /\ res.code = 200
    /\ jobs[res.id].status = "processing"
    /\ tasks[res.id].pc = "extract"

---------------------------------------------------------------------------
\* C15 as stated: the purge of an upload after a job was created from it
\* leaves the job to run as it would have without the purge.  The job works
\* from the path it captured, so the purge can reach it only through the
\* stored file: no job fails because its input is gone.
C15_PurgeLeavesJobAlone ==
    \A j \in DOMAIN jobs : jobs[j].error # NoInput

---------------------------------------------------------------------------
\* C16 as stated: without the credential no converter is invoked and no
\* transcription is attempted for any request.
C16_NoWorkWithoutCredential ==
    ~apiKey =>
        \A j \in DOMAIN calls :
            \A c \in calls[j] : c.op \notin {"convert", "transcribe"}

---------------------------------------------------------------------------
\* C17 as stated: a job in status error has progress percentage 0 and the
\* progress message "error" (in either case of the first letter), and an
\* error detail that is the description of what was raised.
C17_ErrorResetsProgress ==
    \A j \in DOMAIN jobs :
        jobs[j].status = "error" =>
            /\ jobs[j].progress.pct = 0
            /\ jobs[j].progress.message \in {"error", "Error"}
            /\ jobs[j].error # NoError

---------------------------------------------------------------------------
\* what a failed conversion is reported with
ConverterErrors == {Err("convert", {}), NoInput}

\* C18: a job whose converter failed is in status error with the
\* converter's failure as detail; it has made no probe, split or
\* transcription call, its run is over, and cleanup has removed what the
\* failed conversion left of the converted audio (and, in the chunked
\* build, the uploaded file).  A run that ends during the conversion ends
\* in error.
C18_ConverterFailureIsFatal ==
    /\ [](\A j \in DOMAIN jobs :
            jobs[j].error \in ConverterErrors =>
              /\ jobs[j].status = "error"
              /\ calls[j] = {Call("convert", tasks[j].uploadedPath)}
              /\ tasks[j].pc = "finished"
              /\ tasks[j].mp3Path \notin fs
              /\ ChunksDir(j) \notin fs
              /\ build = "chunked" => tasks[j].uploadedPath \notin fs)
    /\ [][\A j \in DOMAIN tasks :
            (tasks[j].pc \in {"extract", "converting"} /\ tasks'[j].pc = "finished")
            => jobs'[j].status = "error"]_vars

\* a conversion failed part-way and its partial output is gone
C18_Witness ==
    \E j \in DOMAIN jobs :
        /\ jobs[j].error = Err("convert", {})
        /\ tasks[j].pc = "finished"
        /\ tasks[j].mp3Path \notin fs

---------------------------------------------------------------------------
\* C19 as stated: a failure of the probe never puts the job in status
\* error.
C19_ProbeFailureNotFatal ==
    \A j \in DOMAIN jobs : jobs[j].error # Err("probe", {})

---------------------------------------------------------------------------
\* position of a file among the chunks a job uses (0 if it is none of them)
ChunkIndex(t, file) ==
    IF \E k \in 1 .. Len(t.used) : t.used[k] = file
    THEN CHOOSE k \in 1 .. Len(t.used) : t.used[k] = file
    ELSE 0

\* C20: a job has one converter run, and the transcription call of a chunk
\* starts only when the conversion and the split are over and every
\* earlier chunk's call has returned its transcript: at that moment the
\* text stitched so far is that of all earlier chunks, in order.
C20_OneAfterAnother ==
    /\ [](\A j \in DOMAIN calls :
            Cardinality({c \in calls[j] : c.op = "convert"}) <= 1)
    /\ [][\A j \in DOMAIN tasks :
            \A c \in calls'[j] \ calls[j] :
                (c.op = "transcribe" /\ tasks'[j].chunksDir # NoPath)
                => LET t == tasks'[j]
                       k == ChunkIndex(t, c.file)
                   IN /\ k >= 1
                      /\ t.pc = "transcribe"
                      /\ t.i = k - 1
                      /\ t.full = JoinBlank(TranscriptsOf(t.used, k - 1))
                      /\ \A m \in 1 .. k - 1 : Call("transcribe", t.used[m]) \in calls[j]
                      /\ \A m \in k + 1 .. Len(t.used) :
                           Call("transcribe", t.used[m]) \notin calls'[j]]_vars

\* the call for a third chunk is in flight
C20_Witness ==
    \E j \in DOMAIN tasks :
        /\ tasks[j].pc = "transcribe"
        /\ tasks[j].chunksDir # NoPath
        /\ tasks[j].i = 2
        /\ Call("transcribe", tasks[j].used[3]) \in calls[j]

---------------------------------------------------------------------------
\* p is x / y rounded to the nearest integer, a half going up
IsRounded(p, x, y) == 2 * y * p <= 2 * x + y /\ 2 * x + y < 2 * y * (p + 1)

\* C21: on the chunked path with n chunks in use, the percentage in the
\* record while chunk i (from 0) is transcribed is 55 + round(40 * i / n);
\* it lies in 55 .. 95, it is not below the 35 of the split stage nor above
\* 100, and the percentages written for a job never decrease.
C21_ChunkProgress ==
    \A j \in DOMAIN tasks :
        (Chunked(j) /\ tasks[j].pc \in {"transcribe", "sleep"})
        => LET i == tasks[j].i
               n == Len(tasks[j].used)
               p == jobs[j].progress.pct
           IN /\ n \in 1 .. MAX_CHUNKS
              /\ IsRounded(p - 55, 40 * i, n)
              /\ p \in 55 .. 95
              /\ 35 <= p /\ p <= 100
              /\ \A k \in 1 .. Len(writes[j]) - 1 :
                   writes[j][k].pct <= writes[j][k + 1].pct
              /\ \E k \in 1 .. Len(writes[j]) : writes[j][k].pct = 35

\* the second of sixteen chunks is being transcribed: 40 / 16 is 2.5
C21_Witness ==
    \E j \in DOMAIN tasks :
        /\ Chunked(j)
        /\ tasks[j].pc = "transcribe"
        /\ Len(tasks[j].used) = 16
        /\ tasks[j].i = 1
        /\ jobs[j].progress.pct = 58

---------------------------------------------------------------------------
\* the attempts of the log after which withRetry sleeps: failed, with an
\* error of the build's transient list, and not the last of the budget
WaitedAfter ==
    {k \in 1 .. Len(rtLog) :
        /\ ~rtLog[k].ok
        /\ Retryable(rt.b, rtLog[k].err)
        /\ k < rt.tries}

\* C26: withRetry waits exactly once after each attempt k that failed with a
\* retryable error while attempts remained, for RETRY_BASE_MS * k, and it
\* waits at no other time: not after a success, not after a non-retryable
\* error, not after the last attempt of the budget.
C26_BackoffSchedule ==
    /\ Len(rt.waits) = Cardinality(WaitedAfter)
    /\ WaitedAfter = 1 .. Len(rt.waits)
    /\ \A k \in WaitedAfter : rt.waits[k] = RETRY_BASE_MS * k
    /\ rt.state \in {"returned", "threw"} =>
         /\ Len(rtLog) >= 1 => Len(rtLog) \notin WaitedAfter
         /\ Len(rt.waits) = Len(rtLog) - (IF Len(rtLog) >= 1 THEN 1 ELSE 0)

\* two waits of 1200 ms and 2400 ms, then the last attempt fails
C26_Witness ==
    /\ rt.waits = <<RETRY_BASE_MS, 2 * RETRY_BASE_MS>>
    /\ rt.state = "threw"
    /\ Len(rtLog) = 3

---------------------------------------------------------------------------
\* C29: in every state a job is done exactly when its percentage is 100.
\* The percentage is written first and the status right after it, in the
\* same turn: the record with 100 and processing is written but is in no
\* state a status query can be served in.
C29_DoneIffHundred ==
    \A j \in DOMAIN jobs :
        /\ jobs[j].status = "done" <=> jobs[j].progress.pct = 100
        /\ \A k \in 1 .. Len(writes[j]) :
             writes[j][k].pct = 100 =>
                \/ writes[j][k].status = "done"
                \/ /\ k < Len(writes[j])
                   /\ writes[j][k + 1] = [status |-> "done", pct |-> 100]

\* a status query answered for a job at 100, written as processing just before
C29_Witness ==
    /\ res.route = "GET /api/jobs/:id"
    /\ res.code = 200
    /\ jobs[res.arg].progress.pct = 100
    /\ \E k \in 1 .. Len(writes[res.arg]) :
         writes[res.arg][k] = [status |-> "processing", pct |-> 100]

---------------------------------------------------------------------------
\* C30: the record is created as queued and moved to processing with
\* progress 10 in the turn that creates it, so in every state, and so for
\* every status query, a job is processing with progress >= 10 or is done
\* or error, never queued.
C30_NeverSeenQueued ==
    \A j \in DOMAIN jobs :
        /\ writes[j][1].status = "queued"
        /\ jobs[j].status \in {"processing", "done", "error"}
        /\ jobs[j].status = "processing" => jobs[j].progress.pct >= 10
        /\ j \in DOMAIN tasks

\* a status query answered for a job still at the progress of its first step
C30_Witness ==
    /\ res.route = "GET /api/jobs/:id"
    /\ res.code = 200
    /\ jobs[res.arg].status = "processing"
    /\ jobs[res.arg].progress.pct = 10
    /\ tasks[res.arg].pc = "extract"

---------------------------------------------------------------------------
\* the record of job j, or what was written to it, differs after the step
RecordWritten(j) ==
    \/ j \notin DOMAIN jobs
    \/ jobs'[j] # jobs[j]
    \/ writes'[j] # writes[j]

\* C24: whatever the interleaving of pipelines and requests, a record is
\* written, after the request that created it, only by a step of the
\* pipeline task of its own job, and a step that writes the record of job j
\* leaves the record and the write history of every other job as they were.
C24_OwnTaskWrites ==
    [][\A j \in DOMAIN jobs' :
         RecordWritten(j) =>
            /\ IF j \in DOMAIN jobs
               THEN /\ j \in DOMAIN tasks
                    /\ tasks[j].pc # "finished"
                    /\ tasks'[j] # tasks[j]
               ELSE /\ res'.route = "POST /api/jobs"
                    /\ res'.id = j
            /\ \A k \in DOMAIN jobs \ {j} :
                 /\ jobs'[k] = jobs[k]
                 /\ writes'[k] = writes[k]
                 /\ tasks'[k] = tasks[k]]_vars

\* two pipelines interleaved: one job is done while another, created before
\* it ended, is still transcribing
C24_Witness ==
    \E j \in DOMAIN jobs, k \in DOMAIN jobs :
        /\ j # k
        /\ jobs[j].status = "done"
        /\ jobs[k].status = "processing"
        /\ tasks[k].pc = "transcribe"
        /\ Len(writes[k]) >= 4

---------------------------------------------------------------------------
\* intermediate storage of job j: the converted audio, the chunk directory
\* and the chunk files in it
Intermediate(files, j) ==
    {tasks[j].mp3Path, ChunksDir(j)} \cup ReadDir(files, ChunksDir(j))

IsIntermediate(p) == p.kind \in {"mp3", "chunkdir", "chunk"}

\* C25: distinct jobs have distinct converted-audio paths and chunk
\* directories and share no intermediate file; what a job's probe, split
\* and transcription calls read is its own; and a step creates or deletes
\* an intermediate file only of the one job whose task takes the step.
C25_DisjointStorage ==
    /\ [](\A j \in DOMAIN tasks :
            /\ \A k \in DOMAIN tasks \ {j} :
                 /\ tasks[j].mp3Path # tasks[k].mp3Path
                 /\ ChunksDir(j) # ChunksDir(k)
                 /\ Intermediate(fs, j) \cap Intermediate(fs, k) = {}
            /\ \A c \in calls[j] :
                 /\ c.op \in {"probe", "split"} => c.file = tasks[j].mp3Path
                 /\ c.op = "transcribe" =>
                      \/ c.file = tasks[j].mp3Path
                      \/ \E n \in 1 .. Len(tasks[j].chunkFiles) :
                           c.file = tasks[j].chunkFiles[n]
                 /\ c.op = "convert" => c.file = tasks[j].uploadedPath
            /\ \A n \in 1 .. Len(tasks[j].chunkFiles) :
                 \A k \in DOMAIN tasks \ {j} :
                    tasks[j].chunkFiles[n] \notin Intermediate(fs \cup {tasks[j].chunkFiles[n]}, k))
    /\ [][\A p \in (fs \ fs') \cup (fs' \ fs) :
            IsIntermediate(p) =>
               \E j \in DOMAIN tasks :
                  /\ tasks'[j] # tasks[j]
                  /\ p \in Intermediate(fs \cup fs', j)
                  /\ \A k \in DOMAIN tasks \ {j} : tasks'[k] = tasks[k]]_vars

\* two jobs in flight at once, the converted audio of each on disk
C25_Witness ==
    \E j \in DOMAIN tasks, k \in DOMAIN tasks :
        /\ j # k
        /\ tasks[j].pc \notin {"extract", "converting", "finished"}
        /\ tasks[k].pc \notin {"extract", "converting", "finished"}
        /\ tasks[j].mp3Path \in fs
        /\ tasks[k].mp3Path \in fs

---------------------------------------------------------------------------
\* C27: POST /api/upload that answers 200 has added exactly one record to
\* the upload registry, under an identifier that was not in it, stamped
\* with the current time and pointing at the stored file, which exists
\* (the payload was moved there: no temp file is left); every other record
\* is as it was.  Without a file it answers 400 and the registry and the
\* storage are unchanged; the registry changes in no other case.
C27_StoreInsertsOne ==
    [][res'.route = "POST /api/upload" =>
         /\ res'.code = 200 =>
              LET id == res'.id IN
              /\ id \notin DOMAIN uploads
              /\ DOMAIN uploads' = DOMAIN uploads \cup {id}
              /\ \A u \in DOMAIN uploads : uploads'[u] = uploads[u]
              /\ uploads'[id] = [path |-> StoredPath(id), createdAt |-> clock]
              /\ StoredPath(id) \notin fs
              /\ fs' = fs \cup {StoredPath(id)}
              /\ \A u \in DOMAIN uploads : uploads[u].path # StoredPath(id)
         /\ res'.code = 400 =>
              /\ res'.body = "No file uploaded (field name: file)"
              /\ uploads' = uploads
              /\ fs' = fs
         /\ res'.code # 200 => uploads' = uploads
         /\ res'.code \in {200, 400, 500}]_vars

\* a second upload answered 200 some time after the process started, the
\* first still in the registry
C27_Witness ==
    /\ res.route = "POST /api/upload"
    /\ res.code = 200
    /\ clock > 0
    /\ Cardinality(DOMAIN uploads) = 2
    /\ uploads[res.id].createdAt = clock
    /\ \E u \in DOMAIN uploads : uploads[u].createdAt < clock

---------------------------------------------------------------------------
\* the sweep callback runs in this step
SweepRuns == nextSweep' # nextSweep

Age(id) == clock - uploads[id].createdAt

\* C23: a run of the sweep leaves in the upload registry exactly the
\* records whose age is at most the TTL, each as it was; a record older
\* than the TTL is removed whether or not its file could be deleted; the
\* files of the records kept stay, nothing but files of purged records is
\* deleted, and the job registry and the pipelines are untouched.
C23_SweepPurgesExpired ==
    [][SweepRuns =>
         /\ DOMAIN uploads' = {id \in DOMAIN uploads : Age(id) <= UPLOAD_TTL_MS}
         /\ \A id \in DOMAIN uploads' : uploads'[id] = uploads[id]
         /\ \A id \in DOMAIN uploads' :
              uploads[id].path \in fs => uploads[id].path \in fs'
         /\ fs' \subseteq fs
         /\ fs \ fs' \subseteq
              {uploads[id].path : id \in DOMAIN uploads \ DOMAIN uploads'}
         /\ jobs' = jobs
         /\ writes' = writes
         /\ tasks' = tasks
         /\ calls' = calls]_vars

\* a sweep has just removed a record whose file could not be deleted, and
\* kept a younger one; a job exists
C23_Witness ==
    /\ nextSweep = clock + SWEEP_INTERVAL_MS
    /\ clock > UPLOAD_TTL_MS
    /\ Cardinality(issued) = 2
    /\ Cardinality(DOMAIN uploads) = 1
    /\ \E id \in issued \ DOMAIN uploads : StoredPath(id) \in fs
    /\ \A id \in DOMAIN uploads : uploads[id].path \in fs
    /\ DOMAIN jobs # {}

---------------------------------------------------------------------------
\* the pipeline of job j ends in this step: its finally block runs
Ends(j) ==
    /\ j \in DOMAIN tasks
    /\ tasks[j].pc # "finished"
    /\ tasks'[j].pc = "finished"

\* what the cleanup of job j is to delete, as far as it still exists after it
LeftBehind(j) ==
    (IF build = "chunked"
     THEN {tasks[j].uploadedPath, tasks[j].mp3Path, ChunksDir(j)}
            \cup ReadDir(fs', ChunksDir(j))
     ELSE {tasks[j].mp3Path}) \cap fs'

\* C22: deletions that fail during cleanup are swallowed.  The step in
\* which a pipeline ends leaves its job done or error, with the result text
\* or the error detail that goes with that status; of the job's files only
\* those whose own deletion failed are left (and the chunk directory, if a
\* chunk file in it is left): every other deletion was made; and once the
\* pipeline has ended the record is never written again.
C22_CleanupFailureSwallowed ==
    [][\A j \in DOMAIN tasks :
         /\ Ends(j) =>
              /\ jobs'[j].status \in {"done", "error"}
              /\ jobs'[j].status = "done" =>
                   jobs'[j].error = NoError /\ jobs'[j].resultText # EmptyText
              /\ jobs'[j].status = "error" =>
                   jobs'[j].error # NoError /\ jobs'[j].resultText = EmptyText
              /\ Seen(jobs'[j]) = writes'[j][Len(writes'[j])]
              /\ delFailed'[j] \subseteq fs'
              /\ \A p \in LeftBehind(j) :
                   \/ p \in delFailed'[j]
                   \/ /\ p.kind = "chunkdir"
                      /\ ReadDir(fs', p) \cap delFailed'[j] # {}
         /\ tasks[j].pc = "finished" =>
              /\ jobs'[j] = jobs[j]
              /\ writes'[j] = writes[j]
              /\ tasks'[j] = tasks[j]]_vars

\* a job done on the chunked path whose chunk files could not be deleted:
\* the upload and the converted audio are gone, the record has its text
C22_Witness ==
    \E j \in DOMAIN tasks :
        /\ tasks[j].pc = "finished"
        /\ jobs[j].status = "done"
        /\ jobs[j].resultText # EmptyText
        /\ delFailed[j] # {}
        /\ \A p \in delFailed[j] : p.kind = "chunk" /\ p \in fs
        /\ ChunksDir(j) \in fs
        /\ tasks[j].uploadedPath \notin fs
        /\ tasks[j].mp3Path \notin fs

---------------------------------------------------------------------------
Polling == poll.state \in {"waiting", "fetching"}
Stopped == poll.state \in {"returned", "failed"}

\* C28 as stated: pollJob fails only after it has observed status error or
\* a response that is not OK.
C28_FailsOnlyOnErrorOrNotOk ==
    poll.state = "failed" => poll.seen \in {"error", "non-OK"}

\* C28, amended: pollJob goes on polling exactly when the status it got is
\* queued or processing; it returns only on status done, with the result
\* text of the record; it fails only on status error, on a response that is
\* not OK, or when the fetch itself is rejected; once stopped it stays
\* stopped; and once the job is done or error the loop stops.
C28_PollUntilTerminal ==
    /\ [](/\ poll.state = "returned" =>
               /\ poll.seen = "done"
               /\ jobs[poll.jobId].status = "done"
               /\ poll.out = jobs[poll.jobId].resultText
          /\ poll.state = "failed" =>
               /\ poll.seen \in {"error", "non-OK", "rejected"}
               /\ poll.seen = "error" =>
                    /\ jobs[poll.jobId].status = "error"
                    /\ poll.err = jobs[poll.jobId].error
               /\ poll.seen = "non-OK" => poll.err = Err("Job not found", {})
          /\ Polling => poll.seen \in {"", "queued", "processing"})
    /\ [][/\ (poll.state = "fetching" /\ poll'.state # "fetching")
             => \/ poll'.seen = "rejected" /\ poll'.state = "failed"
                \/ /\ poll'.seen = "non-OK"
                   /\ poll'.state = "failed"
                   /\ poll.jobId \notin DOMAIN jobs
                \/ /\ poll.jobId \in DOMAIN jobs
                   /\ poll'.seen = jobs[poll.jobId].status
                   /\ poll'.state = "waiting" <=> poll'.seen \in {"queued", "processing"}
                   /\ poll'.state = "returned" <=> poll'.seen = "done"
                   /\ poll'.state = "failed" <=> poll'.seen = "error"
          /\ Stopped => poll' = poll]_vars
    /\ ((Polling /\ Terminal(poll.jobId)) ~> Stopped)

\* the loop went round while the job was processing and then returned the text
C28_Witness ==
    /\ poll.state = "returned"
    /\ poll.out # EmptyText
    /\ poll.out = jobs[poll.jobId].resultText
    /\ Len(writes[poll.jobId]) >= 5

---------------------------------------------------------------------------
\* the attempts of the log that end the loop: a success, or a failure with
\* an error that is not of the build's transient list
Final(k) == rtLog[k].ok \/ ~Retryable(rt.b, rtLog[k].err)

\* C32: with a budget of at least one, whatever the attempts' outcomes, the
\* operation is invoked at least once and at most as many times as the
\* budget; a success or a non-retryable failure is the last attempt made;
\* and withRetry has returned exactly when the last attempt succeeded, with
\* that attempt's result.
C32_AttemptsBounded ==
    rt.tries >= 1 =>
        /\ 1 <= rt.ncalls /\ rt.ncalls <= rt.tries
        /\ rt.ncalls = Len(rtLog) + (IF rt.state = "calling" THEN 1 ELSE 0)
        /\ \A k \in 1 .. Len(rtLog) :
             Final(k) => /\ k = Len(rtLog)
                         /\ rt.ncalls = k
                         /\ rt.state \in {"returned", "threw"}
        /\ rt.state = "returned" <=> (Len(rtLog) >= 1 /\ rtLog[Len(rtLog)].ok)
        /\ rt.state = "returned" => rt.val = rtLog[Len(rtLog)].val
        /\ rt.state = "threw" => rt.err = rtLog[Len(rtLog)].err

\* a transient failure, then a success whose result is returned
C32_Witness ==
    /\ rt.tries = 3
    /\ rt.state = "returned"
    /\ rt.ncalls = 2
    /\ ~rtLog[1].ok
    /\ rtLog[2].ok
    /\ rt.val = <<"w">>

---------------------------------------------------------------------------
\* POST /api/jobs of the registry build has answered a request that names
\* an upload in the registry
CreatesFromLive ==
    /\ build = "registry"
    /\ res'.route = "POST /api/jobs"
    /\ res'.arg \in DOMAIN uploads

\* C31: creating a job from an upload does not consume the upload.  A
\* request naming a record in the registry is answered 200 with a job
\* identifier that was not in use, whatever jobs were created from that
\* record before; it leaves the upload registry, the storage and every
\* other job as they were, and the new job works from the record's path.
\* No step of a pipeline changes the upload registry or deletes a stored
\* upload.
C31_UploadNotConsumed ==
    /\ [][CreatesFromLive =>
            LET j == res'.id IN
            /\ res'.code = 200
            /\ j \notin DOMAIN jobs
            /\ j \in DOMAIN jobs'
            /\ uploads' = uploads
            /\ fs' = fs
            /\ tasks'[j].uploadedPath = uploads[res'.arg].path
            /\ tasks'[j].mp3Path \notin {tasks[k].mp3Path : k \in DOMAIN tasks}
            /\ jobs'[j].status = "processing"
            /\ \A k \in DOMAIN jobs :
                 /\ jobs'[k] = jobs[k]
                 /\ writes'[k] = writes[k]
                 /\ tasks'[k] = tasks[k]]_vars
    /\ [][(build = "registry" /\ \E j \in DOMAIN tasks : tasks'[j] # tasks[j])
            => /\ uploads' = uploads
               /\ \A p \in fs : p.kind = "stored" => p \in fs']_vars

\* two jobs created from the same upload, both done, each with its own
\* text in its own record; the upload is still in the registry and stored
C31_Witness ==
    /\ build = "registry"
    /\ \E j \in DOMAIN jobs, k \in DOMAIN jobs, u \in DOMAIN uploads :
         /\ j # k
         /\ tasks[j].uploadedPath = uploads[u].path
         /\ tasks[k].uploadedPath = uploads[u].path
         /\ uploads[u].path \in fs
         /\ jobs[j].status = "done" /\ jobs[j].resultText # EmptyText
         /\ jobs[k].status = "done" /\ jobs[k].resultText # EmptyText
         /\ tasks[j].mp3Path # tasks[k].mp3Path

===========================================================================
